---- MODULE Spec2Model ----
(***************************************************************************)
(* Model of the diastolic-function decision engine lib/dd2025.ts           *)
(* (computeDD2025, computeSinus, computeAF, safeDiv, avg2, pack).          *)
(*                                                                         *)
(* Numbers.  A measurement is a JavaScript number; the model keeps it as   *)
(* an integer count of thousandths (Dec(6, 5) is 6.005), so that a value   *)
(* with more than two decimals exists and rounding to two decimals is an   *)
(* operation that changes something.  Arithmetic is exact (rational), not  *)
(* IEEE-754 double arithmetic.                                             *)
(*                                                                         *)
(* Absence.  `number | null` is the empty set (null) or a singleton {v}.   *)
(***************************************************************************)
EXTENDS Integers, Sequences, FiniteSets, TLC

VARIABLES x, result, pc, form, pvSD

vars == <<x, result, pc, form, pvSD>>

(***************************************************************************)
(* Number representation                                                   *)
(***************************************************************************)
\* i.f as a count of thousandths: Dec(2, 800) is 2.8, Dec(0, 670) is 0.67
Dec(i, f) == i * 1000 + f

null == {}

Some(v) == {v}

Val(a) == CHOOSE v \in a : TRUE

\* floor of n / d for any non-zero d
FloorDiv(n, d) == IF d > 0 THEN n \div d ELSE (-n) \div (-d)

\* Math.round(n / d): the nearest integer, a tie going towards +Infinity
MathRound(n, d) == FloorDiv(2 * n + d, 2 * d)

(***************************************************************************)
(* Utilities                                                               *)
(***************************************************************************)
\* variant: the quotient cut to 2 decimals with Math.floor
safeDiv_floor(a, b) ==
    IF a = null \/ b = null \/ b = Some(0) THEN null
    ELSE Some(10 * FloorDiv(100 * Val(a), Val(b)))

\* Math.round((a / b) * 100) / 100, in thousandths
safeDiv(a, b) ==
    IF a = null \/ b = null \/ b = Some(0) THEN null
    ELSE Some(10 * MathRound(100 * Val(a), Val(b)))

\* variant: the mean of two values without the rounding to 2 decimals
avg2_unrounded(a, b) ==
    IF a = null /\ b = null THEN null
    ELSE IF a = null THEN b
    ELSE IF b = null THEN a
    ELSE Some(MathRound(Val(a) + Val(b), 2))

\* Math.round(((a + b) / 2) * 100) / 100, in thousandths; one value alone
\* is passed through as it is
avg2(a, b) ==
    IF a = null /\ b = null THEN null
    ELSE IF a = null THEN b
    ELSE IF b = null THEN a
    ELSE Some(10 * MathRound(Val(a) + Val(b), 20))

pack(gradeLabel, summary, badgeTone, EA, eAvg, EeAvg, ruleTrace, missing) ==
    [gradeLabel |-> gradeLabel,
     summary    |-> summary,
     badgeTone  |-> badgeTone,
     derived    |-> [EA |-> EA, eAvg |-> eAvg, EeAvg |-> EeAvg],
     ruleTrace  |-> ruleTrace,
     missing    |-> missing]

\* the strings pushed when the condition holds, in the order of the pushes
PushIf(cond, s) == IF cond THEN <<s>> ELSE <<>>

\* [a, b, c].filter(Boolean).length
CountTrue(bs) == Cardinality({i \in DOMAIN bs : bs[i]})

(***************************************************************************)
(* SINUS RHYTHM (Algorithm 1)                                              *)
(***************************************************************************)
sinusEA(b) == safeDiv(b.E, b.A)

sinusEAvg(b) == avg2(b.eSeptal, b.eLateral)

sinusEeAvg(b) == safeDiv(b.E, sinusEAvg(b))

\* variant: the e' advisory pushed when either e' is absent
sinusMissing_either(b) ==
    PushIf(b.E = null, "Mitral E (cm/s)")
    \o PushIf(b.A = null, "Mitral A (cm/s) (needed for E/A)")
    \o PushIf(b.eSeptal = null \/ b.eLateral = null,
              "Septal and/or lateral e' (cm/s)")

sinusMissing(b) ==
    PushIf(b.E = null, "Mitral E (cm/s)")
    \o PushIf(b.A = null, "Mitral A (cm/s) (needed for E/A)")
    \o PushIf(b.eSeptal = null /\ b.eLateral = null,
              "Septal and/or lateral e' (cm/s)")

\* variant: septal e' compared without its null check (null <= 6 is true)
reducedE_uncheckedSeptal(b) ==
    \/ (b.eSeptal = null \/ Val(b.eSeptal) <= Dec(6, 0))
    \/ (b.eLateral # null /\ Val(b.eLateral) <= Dec(7, 0))
    \/ (sinusEAvg(b) # null /\ Val(sinusEAvg(b)) <= Dec(6, 500))

reducedE(b) ==
    \/ (b.eSeptal # null /\ Val(b.eSeptal) <= Dec(6, 0))
    \/ (b.eLateral # null /\ Val(b.eLateral) <= Dec(7, 0))
    \/ (sinusEAvg(b) # null /\ Val(sinusEAvg(b)) <= Dec(6, 500))

highEe(b) == sinusEeAvg(b) # null /\ Val(sinusEeAvg(b)) >= Dec(14, 0)

\* variant: the AF comparison (>) used for the sinus marker
highTR_strict(b) ==
    \/ (b.trVmax # null /\ Val(b.trVmax) > Dec(2, 800))
    \/ (b.pasp # null /\ Val(b.pasp) > Dec(35, 0))

highTR(b) ==
    \/ (b.trVmax # null /\ Val(b.trVmax) >= Dec(2, 800))
    \/ (b.pasp # null /\ Val(b.pasp) >= Dec(35, 0))

\* variant: the array's length without .filter(Boolean)
nAbn_unfiltered(b) == Len(<<reducedE(b), highEe(b), highTR(b)>>)

nAbn(b) == CountTrue(<<reducedE(b), highEe(b), highTR(b)>>)

\* the test of the "Reduced e' only" branch
reducedOnly(b) == reducedE(b) /\ ~highEe(b) /\ ~highTR(b)

\* variant: Grade 1 only for E/A < 0.8
grade1Exit_strict(b) ==
    reducedOnly(b) /\ sinusEA(b) # null /\ Val(sinusEA(b)) < Dec(0, 800)

\* the test of the Grade 1 return inside that branch
grade1Exit(b) ==
    reducedOnly(b) /\ sinusEA(b) # null /\ Val(sinusEA(b)) <= Dec(0, 800)

anyConfirmAvailable(b) ==
    b.pvSD # null \/ b.lars # null \/ b.lavi # null \/ b.ivrt # null

\* variant: LAVI >= 34 confirms
lap_inclusive(b) ==
    \/ (b.pvSD # null /\ Val(b.pvSD) <= Dec(0, 670))
    \/ (b.lars # null /\ Val(b.lars) <= Dec(18, 0))
    \/ (b.lavi # null /\ Val(b.lavi) >= Dec(34, 0))
    \/ (b.ivrt # null /\ Val(b.ivrt) <= Dec(70, 0))

\* variant: IVRT compared without its null check (null <= 70 is true)
lap_uncheckedIvrt(b) ==
    \/ (b.pvSD # null /\ Val(b.pvSD) <= Dec(0, 670))
    \/ (b.lars # null /\ Val(b.lars) <= Dec(18, 0))
    \/ (b.lavi # null /\ Val(b.lavi) > Dec(34, 0))
    \/ (b.ivrt = null \/ Val(b.ivrt) <= Dec(70, 0))

lap(b) ==
    \/ (b.pvSD # null /\ Val(b.pvSD) <= Dec(0, 670))
    \/ (b.lars # null /\ Val(b.lars) <= Dec(18, 0))
    \/ (b.lavi # null /\ Val(b.lavi) > Dec(34, 0))
    \/ (b.ivrt # null /\ Val(b.ivrt) <= Dec(70, 0))

\* variant: Grade 3 only for E/A > 2
gradeByEA_strict(b, trace, missing) ==
    LET EA    == sinusEA(b)
        eAvg  == sinusEAvg(b)
        EeAvg == sinusEeAvg(b)
    IN  IF EA = null
        THEN pack("Increased LAP (grade unknown)",
                  "Elevated LAP but E/A missing -> cannot assign Grade 2 vs 3",
                  "red", EA, eAvg, EeAvg, trace, missing)
        ELSE IF Val(EA) > Dec(2, 0)
        THEN pack("Grade 3", "Elevated LAP with E/A >= 2",
                  "red", EA, eAvg, EeAvg, trace, missing)
        ELSE pack("Grade 2", "Elevated LAP with E/A < 2",
                  "red", EA, eAvg, EeAvg, trace, missing)

\* variant: the unknown-grade result toned amber like the other undecided ones
gradeByEA_amberUnknown(b, trace, missing) ==
    LET EA    == sinusEA(b)
        eAvg  == sinusEAvg(b)
        EeAvg == sinusEeAvg(b)
    IN  IF EA = null
        THEN pack("Increased LAP (grade unknown)",
                  "Elevated LAP but E/A missing -> cannot assign Grade 2 vs 3",
                  "amber", EA, eAvg, EeAvg, trace, missing)
        ELSE IF Val(EA) >= Dec(2, 0)
        THEN pack("Grade 3", "Elevated LAP with E/A >= 2",
                  "red", EA, eAvg, EeAvg, trace, missing)
        ELSE pack("Grade 2", "Elevated LAP with E/A < 2",
                  "red", EA, eAvg, EeAvg, trace, missing)

\* variant: Grade 3 decided on the unrounded quotient E / A >= 2
gradeByEA_unrounded(b, trace, missing) ==
    LET EA    == sinusEA(b)
        eAvg  == sinusEAvg(b)
        EeAvg == sinusEeAvg(b)
    IN  IF EA = null
        THEN pack("Increased LAP (grade unknown)",
                  "Elevated LAP but E/A missing -> cannot assign Grade 2 vs 3",
                  "red", EA, eAvg, EeAvg, trace, missing)
        ELSE IF (IF Val(b.A) > 0 THEN Val(b.E) >= 2 * Val(b.A)
                                 ELSE Val(b.E) <= 2 * Val(b.A))
        THEN pack("Grade 3", "Elevated LAP with E/A >= 2",
                  "red", EA, eAvg, EeAvg, trace, missing)
        ELSE pack("Grade 2", "Elevated LAP with E/A < 2",
                  "red", EA, eAvg, EeAvg, trace, missing)

\* Elevated LAP -> Grade depends on E/A
gradeByEA(b, trace, missing) ==
    LET EA    == sinusEA(b)
        eAvg  == sinusEAvg(b)
        EeAvg == sinusEeAvg(b)
    IN  IF EA = null
        THEN pack("Increased LAP (grade unknown)",
                  "Elevated LAP but E/A missing -> cannot assign Grade 2 vs 3",
                  "red", EA, eAvg, EeAvg, trace, missing)
        ELSE IF Val(EA) >= Dec(2, 0)
        THEN pack("Grade 3", "Elevated LAP with E/A >= 2",
                  "red", EA, eAvg, EeAvg, trace, missing)
        ELSE pack("Grade 2", "Elevated LAP with E/A < 2",
                  "red", EA, eAvg, EeAvg, trace, missing)

computeSinus(b) ==
    LET EA      == sinusEA(b)
        eAvg    == sinusEAvg(b)
        EeAvg   == sinusEeAvg(b)
        missing == sinusMissing(b)
        trace0  == <<"Top markers abnormal: " \o ToString(nAbn(b)) \o "/3">>
        trace1  == trace0 \o PushIf(reducedOnly(b), "Reduced e' only branch")
        trace2  == trace1 \o <<IF lap(b) THEN "LAP elevated"
                                         ELSE "LAP not elevated">>
    IN  IF nAbn(b) = 0
        THEN pack("Normal DF", "All diastolic markers normal -> Normal LAP",
                  "green", EA, eAvg, EeAvg, trace0, missing)
        ELSE IF grade1Exit(b)
        THEN pack("Grade 1", "Reduced e' only with E/A <= 0.8",
                  "blue", EA, eAvg, EeAvg, trace1, missing)
        ELSE IF ~anyConfirmAvailable(b)
        THEN pack("Indeterminate",
                  "Need >=1 confirmatory variable (PV S/D, LARS, LAVI, or IVRT) to confirm LAP",
                  "amber", EA, eAvg, EeAvg,
                  trace1 \o <<"No confirmatory variables available">>, missing)
        ELSE IF ~lap(b)
        THEN pack("Indeterminate",
                  "Abnormal markers present but LAP not confirmed by PV S/D, LARS, LAVI, or IVRT",
                  "amber", EA, eAvg, EeAvg, trace2, missing)
        ELSE gradeByEA(b, trace2, missing)

(***************************************************************************)
(* ATRIAL FIBRILLATION (Algorithm 2)                                       *)
(***************************************************************************)
\* variant: E/A computed in AF mode as it is in sinus mode
afEA_computed(b) == safeDiv(b.E, b.A)

\* the E/A argument computeAF hands to pack: the literal null
afEA(b) == null

afEAvg(b) == avg2(b.eSeptal, b.eLateral)

afEeAvg(b) == safeDiv(b.E, afEAvg(b))

afMissing(b) ==
    PushIf(b.E = null, "Mitral E (cm/s)")
    \o PushIf(b.eSeptal = null, "Septal e' (cm/s) (for septal E/e')")
    \o PushIf(b.trVmax = null /\ b.pasp = null, "TR Vmax (m/s) or PASP (mmHg)")
    \o PushIf(b.dt = null, "DT (ms)")

\* n / d > k for a non-zero d, without rounding
QuotientGT(n, d, k) == IF d > 0 THEN n > k * d ELSE n < k * d

\* 1) E >= 100
critE(b) == b.E # null /\ Val(b.E) >= Dec(100, 0)

\* 2) septal E/e' > 11
critSeptalEe(b) ==
    /\ b.E # null
    /\ b.eSeptal # null
    /\ Val(b.eSeptal) # 0
    /\ QuotientGT(Val(b.E), Val(b.eSeptal), 11)

\* variant: the sinus comparison (>=) used for the AF criterion
critTR_inclusive(b) ==
    \/ (b.trVmax # null /\ Val(b.trVmax) >= Dec(2, 800))
    \/ (b.pasp # null /\ Val(b.pasp) >= Dec(35, 0))

\* 3) TR > 2.8 or PASP > 35
critTR(b) ==
    \/ (b.trVmax # null /\ Val(b.trVmax) > Dec(2, 800))
    \/ (b.pasp # null /\ Val(b.pasp) > Dec(35, 0))

\* 4) DT <= 160
critDT(b) == b.dt # null /\ Val(b.dt) <= Dec(160, 0)

count(b) == CountTrue(<<critE(b), critSeptalEe(b), critTR(b), critDT(b)>>)

secAvail(b) == CountTrue(<<b.lars # null, b.pvSD # null, b.bmi # null>>)

\* variant: LARS <= 18 (the sinus comparison) counted as positive
sec_inclusive(b) ==
    CountTrue(<<b.lars # null /\ Val(b.lars) <= Dec(18, 0),
                b.pvSD # null /\ Val(b.pvSD) < Dec(1, 0),
                b.bmi # null /\ Val(b.bmi) > Dec(30, 0)>>)

sec(b) ==
    CountTrue(<<b.lars # null /\ Val(b.lars) < Dec(18, 0),
                b.pvSD # null /\ Val(b.pvSD) < Dec(1, 0),
                b.bmi # null /\ Val(b.bmi) > Dec(30, 0)>>)

\* variant: the secondary tally pushed after the "none available" return
secondaryTieBreak_latePush(b, trace0, missing) ==
    LET eAvg  == afEAvg(b)
        EeAvg == afEeAvg(b)
        trace == trace0 \o <<"Secondary criteria positive: " \o ToString(sec(b))
                             \o "/" \o ToString(secAvail(b))>>
    IN  IF secAvail(b) = 0
        THEN pack("Indeterminate",
                  "2 AF criteria positive, but no secondary criteria available (LARS, PV S/D, BMI)",
                  "amber", afEA(b), eAvg, EeAvg, trace0, missing)
        ELSE IF sec(b) >= 2
        THEN pack("Elevated LAP", "2 AF criteria + >=2 secondary criteria positive",
                  "red", afEA(b), eAvg, EeAvg, trace, missing)
        ELSE IF sec(b) = 0
        THEN pack("Normal LAP", "2 AF criteria + no secondary criteria positive",
                  "green", afEA(b), eAvg, EeAvg, trace, missing)
        ELSE pack("Indeterminate",
                  "2 AF criteria + only 1 secondary criterion positive (or unreliable)",
                  "amber", afEA(b), eAvg, EeAvg, trace, missing)

\* Exactly 2 positive -> secondary criteria
secondaryTieBreak(b, trace0, missing) ==
    LET eAvg  == afEAvg(b)
        EeAvg == afEeAvg(b)
        trace == trace0 \o <<"Secondary criteria positive: " \o ToString(sec(b))
                             \o "/" \o ToString(secAvail(b))>>
    IN  IF secAvail(b) = 0
        THEN pack("Indeterminate",
                  "2 AF criteria positive, but no secondary criteria available (LARS, PV S/D, BMI)",
                  "amber", afEA(b), eAvg, EeAvg, trace, missing)
        ELSE IF sec(b) >= 2
        THEN pack("Elevated LAP", "2 AF criteria + >=2 secondary criteria positive",
                  "red", afEA(b), eAvg, EeAvg, trace, missing)
        ELSE IF sec(b) = 0
        THEN pack("Normal LAP", "2 AF criteria + no secondary criteria positive",
                  "green", afEA(b), eAvg, EeAvg, trace, missing)
        ELSE pack("Indeterminate",
                  "2 AF criteria + only 1 secondary criterion positive (or unreliable)",
                  "amber", afEA(b), eAvg, EeAvg, trace, missing)

computeAF(b) ==
    LET eAvg    == afEAvg(b)
        EeAvg   == afEeAvg(b)
        missing == afMissing(b)
        trace   == <<"AF criteria positive: " \o ToString(count(b)) \o "/4">>
    IN  IF count(b) <= 1
        THEN pack("Normal LAP", "0-1 AF criteria positive",
                  "green", afEA(b), eAvg, EeAvg, trace, missing)
        ELSE IF count(b) >= 3
        THEN pack("Elevated LAP", ">=3 AF criteria positive",
                  "red", afEA(b), eAvg, EeAvg, trace, missing)
        ELSE secondaryTieBreak(b, trace, missing)

\* variant: the two branches of the conditional exchanged
computeDD2025_swapped(b) == IF b.isAF THEN computeSinus(b) ELSE computeAF(b)

computeDD2025(b) == IF b.isAF THEN computeAF(b) ELSE computeSinus(b)

(***************************************************************************)
(* Bundles the engine is invoked with                                      *)
(***************************************************************************)
\* a field that is absent or holds one of the values
Opt(S) == {null} \cup {Some(v) : v \in S}

\* sinus bundles: values on, just below and just above every threshold the
\* sinus chain reads; zero and negative values included
SinusBundles ==
    [isAF     : {FALSE},
     E        : Opt({Dec(40, 0), Dec(100, 0), Dec(140, 0)}),
     A        : Opt({0, Dec(50, 0), Dec(70, 0)}),
     eSeptal  : Opt({Dec(6, 0), Dec(6, 5), Dec(8, 0)}),
     eLateral : Opt({Dec(7, 0), Dec(10, 0)}),
     trVmax   : Opt({Dec(2, 790), Dec(2, 800)}),
     pasp     : Opt({Dec(35, 0)}),
     lavi     : Opt({Dec(34, 0), Dec(34, 10)}),
     lars     : Opt({Dec(18, 0), Dec(18, 10)}),
     pvSD     : Opt({Dec(0, 670), Dec(0, 680)}),
     ivrt     : Opt({Dec(70, 0), Dec(71, 0)}),
     dt       : {null},
     bmi      : Opt({Dec(31, 0)})]

\* AF bundles: values around every threshold the AF chain reads
AFBundles ==
    [isAF     : {TRUE},
     E        : Opt({Dec(95, 0), Dec(100, 0), Dec(110, 0)}),
     A        : Opt({Dec(60, 0)}),
     eSeptal  : Opt({0, Dec(8, 0), Dec(10, 0)}),
     eLateral : Opt({Dec(10, 5)}),
     trVmax   : Opt({Dec(2, 800), Dec(3, 0)}),
     pasp     : Opt({Dec(35, 0), Dec(36, 0)}),
     lavi     : {null},
     lars     : Opt({Dec(17, 990), Dec(18, 0)}),
     pvSD     : Opt({Dec(0, 800), Dec(1, 0)}),
     ivrt     : Opt({Dec(65, 0)}),
     dt       : Opt({Dec(160, 0), Dec(161, 0)}),
     bmi      : Opt({Dec(30, 0), Dec(31, 0)})]

\* special bundles: negative operands and ratios that round across a cut-point
EdgeBundles ==
    [isAF     : BOOLEAN,
     E        : Opt({-Dec(50, 0), 0, Dec(50, 0), Dec(79, 900), Dec(80, 0)}),
     A        : Opt({-Dec(40, 0), 0, Dec(16, 0), Dec(40, 0)}),
     eSeptal  : Opt({-Dec(5, 0), 0, Dec(5, 715)}),
     eLateral : Opt({Dec(5, 0)}),
     trVmax   : {null},
     pasp     : Opt({Dec(40, 0)}),
     lavi     : Opt({Dec(40, 0)}),
     lars     : {null},
     pvSD     : {null},
     ivrt     : {null},
     dt       : Opt({Dec(150, 0)}),
     bmi      : {null}]

Bundles == SinusBundles \cup AFBundles \cup EdgeBundles

\* the value of `result` before the engine has returned
NoResult == pack("", "", "gray", null, null, null, <<>>, <<>>)

(***************************************************************************)
(* The page with separate pulmonary-vein S and D fields                    *)
(***************************************************************************)
\* the form after useState and after Reset: every text field empty
EmptyForm ==
    [isAF |-> FALSE, E |-> "", A |-> "", eSeptal |-> "", eLateral |-> "",
     trVmax |-> "", pasp |-> "", lavi |-> "", lars |-> "", pvS |-> "",
     pvD |-> "", ivrt |-> "", dt |-> "", bmi |-> ""]

\* the texts typed into a field of the form
FieldTexts(s) ==
    CASE s = "pvS"    -> {"", "abc", " 30", "50", "60"}
      [] s = "pvD"    -> {"", "0", "50", "60"}
      [] s = "trVmax" -> {"", "3.0"}
      [] s = "dt"     -> {"", "150"}
      [] OTHER        -> {""}

\* num: the text trimmed; "" gives null, a text that is no finite number
\* gives null, any other text its number
num(t) ==
    CASE t = ""    -> null
      [] t = "abc" -> null
      [] t = "0"   -> Some(0)
      [] t = " 30" -> Some(Dec(30, 0))
      [] t = "50"  -> Some(Dec(50, 0))
      [] t = "60"  -> Some(Dec(60, 0))
      [] t = "150" -> Some(Dec(150, 0))
      [] t = "3.0" -> Some(Dec(3, 0))

\* const pvSD = useMemo(...): S / D rounded to 2 decimals, or null
pagePvSD(f) ==
    LET s == num(f.pvS)
        d == num(f.pvD)
    IN  IF s = null \/ d = null \/ d = Some(0) THEN null
        ELSE Some(10 * MathRound(100 * Val(s), Val(d)))

\* const inputs = useMemo(...): the object handed to computeDD2025; it has
\* the properties pvS and pvD and no property pvSD
pageInputs(f) ==
    [isAF |-> f.isAF, E |-> num(f.E), A |-> num(f.A),
     eSeptal |-> num(f.eSeptal), eLateral |-> num(f.eLateral),
     trVmax |-> num(f.trVmax), pasp |-> num(f.pasp),
     lavi |-> num(f.lavi), lars |-> num(f.lars),
     pvS |-> num(f.pvS), pvD |-> num(f.pvD),
     ivrt |-> num(f.ivrt), dt |-> num(f.dt), bmi |-> num(f.bmi)]

\* the properties the engine reads
DDInputsFields ==
    {"isAF", "E", "A", "eSeptal", "eLateral", "trVmax", "pasp",
     "lavi", "lars", "pvSD", "ivrt", "dt", "bmi"}

\* the bundle as the engine's property reads see it: a property the object
\* does not have reads as undefined, and undefined == null is true
ReadAsDDInputs(obj) ==
    [p \in DDInputsFields |-> IF p \in DOMAIN obj THEN obj[p] ELSE null]

\* a render of the page after the form became f: the memos pvSD, inputs and
\* result are recomputed
Render(f) ==
    /\ form' = f
    /\ pvSD' = pagePvSD(f)
    /\ x' = ReadAsDDInputs(pageInputs(f))
    /\ result' = computeDD2025(ReadAsDDInputs(pageInputs(f)))
    /\ pc' = "done"

\* the first render
InitPage ==
    /\ form = EmptyForm
    /\ pvSD = pagePvSD(EmptyForm)
    /\ x = ReadAsDDInputs(pageInputs(EmptyForm))
    /\ result = computeDD2025(ReadAsDDInputs(pageInputs(EmptyForm)))
    /\ pc = "done"

\* Field onChange: setForm((f) => ({ ...f, [s]: e.target.value }))
SetField(s, t) ==
    /\ pc = "done"
    /\ Render([form EXCEPT ![s] = t])

\* the "Atrial fibrillation" checkbox
ToggleAF(checked) ==
    /\ pc = "done"
    /\ Render([form EXCEPT !.isAF = checked])

\* the Reset button
Reset ==
    /\ pc = "done"
    /\ Render(EmptyForm)

NextPage ==
    \/ \E s \in DOMAIN EmptyForm \ {"isAF"} : \E t \in FieldTexts(s) : SetField(s, t)
    \/ \E checked \in BOOLEAN : ToggleAF(checked)
    \/ Reset

SpecPage == InitPage /\ [][NextPage]_vars

(***************************************************************************)
(* The state machine: a caller holds a bundle and invokes the engine       *)
(***************************************************************************)
Init ==
    /\ x \in Bundles
    /\ result = NoResult
    /\ pc = "call"
    /\ form = EmptyForm
    /\ pvSD = null

\* const result = computeDD2025(inputs)
Invoke ==
    /\ pc = "call"
    /\ result' = computeDD2025(x)
    /\ pc' = "done"
    /\ UNCHANGED <<x, form, pvSD>>

Next == Invoke

Spec == Init /\ [][Next]_vars

(***************************************************************************)
(* Properties                                                              *)
(***************************************************************************)
Done == pc = "done"

SinusDone == Done /\ ~x.isAF

AFDone == Done /\ x.isAF

Graded(label, tone) == result.gradeLabel = label /\ result.badgeTone = tone

\* C1: in sinus mode, whenever the three top markers (reduced e', high
\* E/average-e', high right-heart pressure) are all false, the result is
\* "Normal DF" with tone green, whatever PV S/D, LARS, LAVI and IVRT hold.
C1_AllNormalIsNormalDF ==
    (SinusDone /\ ~reducedE(x) /\ ~highEe(x) /\ ~highTR(x))
        => Graded("Normal DF", "green")

\* a sinus bundle with no top marker whose four confirmatory inputs are all
\* present and would confirm an elevated LAP, graded "Normal DF"
C1_Witness ==
    /\ SinusDone
    /\ ~reducedE(x) /\ ~highEe(x) /\ ~highTR(x)
    /\ x.pvSD # null /\ x.lars # null /\ x.lavi # null /\ x.ivrt # null
    /\ Val(x.pvSD) <= Dec(0, 670) /\ Val(x.lavi) > Dec(34, 0)
    /\ Graded("Normal DF", "green")

\* the chain reaches the last stage of the sinus algorithm
C2_LastStage ==
    /\ SinusDone
    /\ (reducedE(x) \/ highEe(x) \/ highTR(x))
    /\ ~grade1Exit(x)
    /\ anyConfirmAvailable(x)
    /\ lap(x)

\* C2: in sinus mode, at the last stage (a top marker true, no Grade 1 exit,
\* a confirmatory input present, LAP elevated) the grade is "Increased LAP
\* (grade unknown)" when E/A is absent, "Grade 3" when E/A >= 2 (2.00
\* included) and "Grade 2" when E/A < 2, and the tone is red in all three.
C2_GradeUnderElevatedLAP ==
    C2_LastStage =>
        LET EA == result.derived.EA
        IN  /\ result.badgeTone = "red"
            /\ EA = null => result.gradeLabel = "Increased LAP (grade unknown)"
            /\ (EA # null /\ Val(EA) >= Dec(2, 0)) => result.gradeLabel = "Grade 3"
            /\ (EA # null /\ Val(EA) < Dec(2, 0)) => result.gradeLabel = "Grade 2"

\* the last stage reached with E/A exactly 2.00, graded "Grade 3"
C2_Witness ==
    /\ C2_LastStage
    /\ x.E = Some(Dec(100, 0)) /\ x.A = Some(Dec(50, 0))
    /\ result.derived.EA = Some(Dec(2, 0))
    /\ Graded("Grade 3", "red")

\* the AF primary-criteria count as the algorithm's description states it:
\* E >= 100; E / septal e' > 11; TR Vmax > 2.8 or PASP > 35; DT <= 160
C3_PrimaryCount(b) ==
    CountTrue(<<b.E # null /\ Val(b.E) >= Dec(100, 0),
                b.E # null /\ b.eSeptal # null /\ Val(b.eSeptal) # 0
                    /\ QuotientGT(Val(b.E), Val(b.eSeptal), 11),
                \/ (b.trVmax # null /\ Val(b.trVmax) > Dec(2, 800))
                \/ (b.pasp # null /\ Val(b.pasp) > Dec(35, 0)),
                b.dt # null /\ Val(b.dt) <= Dec(160, 0)>>)

\* C3: in AF mode a primary-criteria count <= 1 yields "Normal LAP" (green)
\* and a count >= 3 yields "Elevated LAP" (red), whatever LARS, PV S/D and
\* BMI hold.
C3_PrimaryTallyExits ==
    AFDone =>
        /\ C3_PrimaryCount(x) <= 1 => Graded("Normal LAP", "green")
        /\ C3_PrimaryCount(x) >= 3 => Graded("Elevated LAP", "red")

\* an AF bundle with a count >= 3 whose three secondary inputs are present
\* and all negative, graded "Elevated LAP"
C3_Witness ==
    /\ AFDone
    /\ C3_PrimaryCount(x) >= 3
    /\ x.lars = Some(Dec(18, 0)) /\ x.pvSD = Some(Dec(1, 0)) /\ x.bmi = Some(Dec(30, 0))
    /\ Graded("Elevated LAP", "red")

\* the secondary positives of the claim: LARS < 18, PV S/D < 1, BMI > 30,
\* present inputs only
C4_Positive(b) ==
    Cardinality({f \in {"lars", "pvSD", "bmi"} :
        /\ b[f] # null
        /\ CASE f = "lars" -> Val(b[f]) < Dec(18, 0)
             [] f = "pvSD" -> Val(b[f]) < Dec(1, 0)
             [] f = "bmi"  -> Val(b[f]) > Dec(30, 0)})

\* C4: in AF mode with a primary count of exactly 2, the grade is
\* "Indeterminate" when LARS, PV S/D and BMI are all absent; otherwise it is
\* "Elevated LAP" for >= 2 positives, "Normal LAP" for 0 and "Indeterminate"
\* for 1, the positives being LARS < 18, PV S/D < 1 and BMI > 30.
C4_TieBreak ==
    (AFDone /\ C3_PrimaryCount(x) = 2) =>
        IF x.lars = null /\ x.pvSD = null /\ x.bmi = null
        THEN Graded("Indeterminate", "amber")
        ELSE /\ C4_Positive(x) >= 2 => Graded("Elevated LAP", "red")
             /\ C4_Positive(x) = 0 => Graded("Normal LAP", "green")
             /\ C4_Positive(x) = 1 => Graded("Indeterminate", "amber")

\* a count of 2 with LARS exactly 18 (not positive) and one positive among
\* the other two, graded "Indeterminate"
C4_Witness ==
    /\ AFDone
    /\ C3_PrimaryCount(x) = 2
    /\ x.lars = Some(Dec(18, 0))
    /\ C4_Positive(x) = 1
    /\ Graded("Indeterminate", "amber")

\* the strings of a list
Range(q) == {q[i] : i \in DOMAIN q}

\* the bundle fields an advisory string names
Names(label) ==
    CASE label = "Mitral E (cm/s)" -> {"E"}
      [] label = "Mitral A (cm/s) (needed for E/A)" -> {"A"}
      [] label = "Septal and/or lateral e' (cm/s)" -> {"eSeptal", "eLateral"}
      [] label = "Septal e' (cm/s) (for septal E/e')" -> {"eSeptal"}
      [] label = "TR Vmax (m/s) or PASP (mmHg)" -> {"trVmax", "pasp"}
      [] label = "DT (ms)" -> {"dt"}
      [] OTHER -> {}

\* the fields a rule of the mode's algorithm reads
Relevant(isAF) ==
    IF isAF
    THEN {"E", "eSeptal", "eLateral", "trVmax", "pasp", "dt", "lars", "pvSD", "bmi"}
    ELSE {"E", "A", "eSeptal", "eLateral", "trVmax", "pasp",
          "pvSD", "lars", "lavi", "ivrt"}

\* no advisory names a field that is present in the bundle
C5_NeverNamesPresent ==
    \A label \in Range(result.missing) : \A f \in Names(label) : x[f] = null

\* C5 as stated: in either mode the missing list never names a field that is
\* present, and it names every field that is absent and read by a rule of
\* the active mode.
C5_MissingListComplete ==
    Done =>
        /\ C5_NeverNamesPresent
        /\ \A f \in Relevant(x.isAF) :
               x[f] = null => \E label \in Range(result.missing) : f \in Names(label)

\* the advisories the list holds: in sinus mode mitral E, mitral A and the
\* e' pair (both absent); in AF mode mitral E, septal e', the TR Vmax / PASP
\* pair (both absent) and DT
C5_Advisories(b) ==
    IF b.isAF
    THEN {l \in {"Mitral E (cm/s)", "Septal e' (cm/s) (for septal E/e')",
                 "TR Vmax (m/s) or PASP (mmHg)", "DT (ms)"} :
              \A f \in Names(l) : b[f] = null}
    ELSE {l \in {"Mitral E (cm/s)", "Mitral A (cm/s) (needed for E/A)",
                 "Septal and/or lateral e' (cm/s)"} :
              \A f \in Names(l) : b[f] = null}

\* C5 (amended): the missing list never names a field that is present, and
\* it holds exactly the advisories of the mode whose fields are all absent;
\* an absent field outside them (a confirmatory or secondary input, TR Vmax
\* and PASP in sinus mode, one e' of the sinus pair while the other is
\* present) is not named.
C5_MissingListMinimal ==
    Done =>
        /\ C5_NeverNamesPresent
        /\ Range(result.missing) = C5_Advisories(x)
        /\ Len(result.missing) = Cardinality(C5_Advisories(x))

\* a sinus bundle without TR Vmax, PASP and any confirmatory input, all of
\* them read by the sinus rules, whose missing list is empty
C5_Witness ==
    /\ SinusDone
    /\ x.trVmax = null /\ x.pasp = null
    /\ ~anyConfirmAvailable(x)
    /\ x.E # null /\ x.A # null /\ x.eSeptal # null /\ x.eLateral = null
    /\ result.missing = <<>>

\* null, or a value with no more than 2 decimals
Rounded2(v) == v = null \/ Val(v) % 10 = 0

\* C6 as stated: in either mode the derived average e', E/A and
\* E/average-e' are each null or rounded to 2 decimals, also when only one
\* of septal e' and lateral e' is present.
C6_DerivedRounded ==
    Done =>
        /\ Rounded2(result.derived.EA)
        /\ Rounded2(result.derived.eAvg)
        /\ Rounded2(result.derived.EeAvg)

\* C6 (amended): E/A and E/average-e' are each null or rounded to 2
\* decimals; the average e' is null when both e' are absent, rounded to 2
\* decimals when both are present, and the one present value as it was
\* given, unrounded, when only one is present.
C6_DerivedRoundedOrPassthrough ==
    Done =>
        /\ Rounded2(result.derived.EA)
        /\ Rounded2(result.derived.EeAvg)
        /\ (x.eSeptal # null /\ x.eLateral # null) =>
               (result.derived.eAvg # null /\ Rounded2(result.derived.eAvg))
        /\ (x.eSeptal # null /\ x.eLateral = null) => result.derived.eAvg = x.eSeptal
        /\ (x.eSeptal = null /\ x.eLateral # null) => result.derived.eAvg = x.eLateral
        /\ (x.eSeptal = null /\ x.eLateral = null) => result.derived.eAvg = null

\* septal e' 6.005 alone: the average e' of the result is 6.005
C6_Witness ==
    /\ Done
    /\ x.eSeptal = Some(Dec(6, 5)) /\ x.eLateral = null
    /\ result.derived.eAvg = Some(Dec(6, 5))
    /\ x.E # null /\ result.derived.EeAvg # null

SinusVocabulary ==
    {"Normal DF", "Grade 1", "Grade 2", "Grade 3", "Indeterminate",
     "Increased LAP (grade unknown)"}

AFVocabulary == {"Normal LAP", "Indeterminate", "Elevated LAP"}

\* C7: for every bundle of finite or absent fields (zero and negative values
\* included) computeDD2025 returns a Result: the invocation can always
\* complete, and the grade label is in the vocabulary of the active mode.
C7_TotalWithinVocabulary ==
    /\ pc = "call" => ENABLED Invoke
    /\ Done => result.gradeLabel \in
                   (IF x.isAF THEN AFVocabulary ELSE SinusVocabulary)

\* an AF bundle with a negative mitral E and a septal e' of zero, graded
\* within the AF vocabulary
C7_Witness ==
    /\ AFDone
    /\ x.E # null /\ Val(x.E) < 0
    /\ x.eSeptal = Some(0)
    /\ result.gradeLabel \in AFVocabulary

\* C8: in AF mode the derived E/A of the result is null for every bundle.
C8_AFHasNoEA == AFDone => result.derived.EA = null

\* an AF bundle with mitral E and a non-zero mitral A, E/A null
C8_Witness ==
    /\ AFDone
    /\ x.E # null /\ x.A # null /\ Val(x.A) # 0
    /\ result.derived.EA = null

\* C9: in sinus mode, when reduced e' is the only true top marker and E/A is
\* present and <= 0.8 the result is "Grade 1" (blue) whatever the
\* confirmatory inputs; when it is the only true marker and E/A is absent or
\* > 0.8 the result is not "Grade 1" and the confirmatory stages decide it.
C9_IsolatedReducedE ==
    (SinusDone /\ reducedE(x) /\ ~highEe(x) /\ ~highTR(x)) =>
        LET EA == result.derived.EA
        IN  IF EA # null /\ Val(EA) <= Dec(0, 800)
            THEN Graded("Grade 1", "blue")
            ELSE /\ result.gradeLabel # "Grade 1"
                 /\ (~anyConfirmAvailable(x) \/ ~lap(x)) =>
                        Graded("Indeterminate", "amber")
                 /\ (anyConfirmAvailable(x) /\ lap(x)) =>
                        /\ result.badgeTone = "red"
                        /\ result.gradeLabel \in
                             {"Grade 2", "Grade 3", "Increased LAP (grade unknown)"}

\* reduced e' alone with E/A exactly 0.80 and confirmatory inputs that mark
\* LAP as elevated, graded "Grade 1"
C9_Witness ==
    /\ SinusDone
    /\ reducedE(x) /\ ~highEe(x) /\ ~highTR(x)
    /\ result.derived.EA = Some(Dec(0, 800))
    /\ lap(x)
    /\ Graded("Grade 1", "blue")

\* the confirmations of the claim among the present inputs:
\* PV S/D <= 0.67, LARS <= 18, LAVI > 34, IVRT <= 70
C10_Confirmed(b) ==
    \/ (b.pvSD # null /\ Val(b.pvSD) <= Dec(0, 670))
    \/ (b.lars # null /\ Val(b.lars) <= Dec(18, 0))
    \/ (b.lavi # null /\ Val(b.lavi) > Dec(34, 0))
    \/ (b.ivrt # null /\ Val(b.ivrt) <= Dec(70, 0))

\* C10: in sinus mode, with a top marker true and the Grade 1 exit not
\* taken, the result is "Indeterminate" (amber) when none of PV S/D, LARS,
\* LAVI, IVRT is present, and also when one is present but none of
\* PV S/D <= 0.67, LARS <= 18, LAVI > 34, IVRT <= 70 holds.
C10_Unconfirmed ==
    (/\ SinusDone
     /\ (reducedE(x) \/ highEe(x) \/ highTR(x))
     /\ result.gradeLabel # "Grade 1"
     /\ ~C10_Confirmed(x))
        => Graded("Indeterminate", "amber")

\* a top marker true, LAVI exactly 34 the only confirmatory input, graded
\* "Indeterminate"
C10_Witness ==
    /\ SinusDone
    /\ (reducedE(x) \/ highEe(x) \/ highTR(x))
    /\ x.lavi = Some(Dec(34, 0))
    /\ x.pvSD = null /\ x.lars = null /\ x.ivrt = null
    /\ Graded("Indeterminate", "amber")

\* the right-heart-pressure criterion with the comparison TR Vmax >= 2.8 or
\* PASP >= 35, an absent input contributing nothing
C11_InclusiveRHP(b) ==
    \/ (b.trVmax # null /\ Val(b.trVmax) >= Dec(2, 800))
    \/ (b.pasp # null /\ Val(b.pasp) >= Dec(35, 0))

\* the same criterion with TR Vmax > 2.8 or PASP > 35
C11_StrictRHP(b) ==
    \/ (b.trVmax # null /\ Val(b.trVmax) > Dec(2, 800))
    \/ (b.pasp # null /\ Val(b.pasp) > Dec(35, 0))

\* C11: the right-heart-pressure criterion is inclusive in sinus mode
\* (TR Vmax >= 2.8 or PASP >= 35 makes the marker true) and strict in AF
\* mode (only TR Vmax > 2.8 or PASP > 35 adds to the primary count); either
\* input alone suffices and an absent input contributes nothing.  The tally
\* line of the trace carries the count the criterion enters.
C11_RightHeartPressure ==
    Done =>
        IF x.isAF
        THEN /\ critTR(x) <=> C11_StrictRHP(x)
             /\ result.ruleTrace[1] =
                    "AF criteria positive: "
                    \o ToString(CountTrue(<<critE(x), critSeptalEe(x),
                                            C11_StrictRHP(x), critDT(x)>>))
                    \o "/4"
        ELSE /\ highTR(x) <=> C11_InclusiveRHP(x)
             /\ result.ruleTrace[1] =
                    "Top markers abnormal: "
                    \o ToString(CountTrue(<<reducedE(x), highEe(x),
                                            C11_InclusiveRHP(x)>>))
                    \o "/3"

\* a sinus bundle whose only abnormal marker comes from TR Vmax exactly 2.8,
\* PASP absent: the tally is 1/3 and the result is not "Normal DF"
C11_Witness ==
    /\ SinusDone
    /\ x.trVmax = Some(Dec(2, 800)) /\ x.pasp = null
    /\ ~reducedE(x) /\ ~highEe(x)
    /\ result.ruleTrace[1] = "Top markers abnormal: 1/3"
    /\ result.gradeLabel # "Normal DF"

\* the lateral e' fields two AF bundles may differ in
C12_LateralValues == Opt({Dec(7, 0), Dec(10, 5)})

\* C12 as stated: lateral e' is unused in AF mode: an AF bundle and any
\* bundle that differs from it only in the lateral e' field (present with
\* any value, or absent) get the same Result: grade, rationale, tone,
\* derived values, trace and missing list.
C12_LateralUnusedInAF ==
    AFDone =>
        \A v \in C12_LateralValues :
            computeDD2025([x EXCEPT !.eLateral = v]) = result

Abs(n) == IF n < 0 THEN -n ELSE n

Sign(n) == IF n < 0 THEN -1 ELSE IF n > 0 THEN 1 ELSE 0

\* r (thousandths, a multiple of 0.01) is n / d rounded to 2 decimals with a
\* tie at the third decimal going away from zero
C13_IsHalfAwayFromZero(r, n, d) ==
    LET k == r \div 10
        q == 200 * Abs(n)
    IN  /\ r % 10 = 0
        /\ (k # 0) => Sign(k) = Sign(n) * Sign(d)
        /\ (2 * Abs(k) - 1) * Abs(d) <= q
        /\ q < (2 * Abs(k) + 1) * Abs(d)

\* r (thousandths, a multiple of 0.01) is n / d rounded to 2 decimals with a
\* tie at the third decimal going towards +Infinity
C13_IsHalfUp(r, n, d) ==
    LET k == r \div 10
        q == 200 * n * Sign(d)
    IN  /\ r % 10 = 0
        /\ (2 * k - 1) * Abs(d) <= q
        /\ q < (2 * k + 1) * Abs(d)

\* C13 as stated: safeDiv(a, b) is null exactly when a is absent, b is
\* absent or b is zero, and is otherwise a / b rounded to 2 decimals with
\* ties half-away-from-zero, for negative quotients as for positive ones.
\* (E/A of a sinus result is safeDiv(E, A).)
C13_SafeDivHalfAwayFromZero ==
    SinusDone =>
        LET EA == result.derived.EA
        IN  /\ EA = null <=> (x.E = null \/ x.A = null \/ x.A = Some(0))
            /\ EA # null => C13_IsHalfAwayFromZero(Val(EA), Val(x.E), Val(x.A))

\* C13 (amended): safeDiv(a, b) is null exactly when a is absent, b is
\* absent or b is zero (a numerator of zero gives 0), and is otherwise a / b
\* rounded to 2 decimals with ties at the third decimal going towards
\* +Infinity: away from zero for a positive quotient, towards zero for a
\* negative one (-3.125 gives -3.12).
C13_SafeDivHalfUp ==
    SinusDone =>
        LET EA == result.derived.EA
        IN  /\ EA = null <=> (x.E = null \/ x.A = null \/ x.A = Some(0))
            /\ EA # null => C13_IsHalfUp(Val(EA), Val(x.E), Val(x.A))

\* E = -50 and A = 16: the quotient -3.125 is a tie, and E/A is -3.12
C13_Witness ==
    /\ SinusDone
    /\ x.E = Some(-Dec(50, 0)) /\ x.A = Some(Dec(16, 0))
    /\ result.derived.EA = Some(-Dec(3, 120))

\* C15: sinus mode never reports a red grade without confirmed elevated LAP:
\* whenever the grade is "Grade 2", "Grade 3" or "Increased LAP (grade
\* unknown)", a top marker is true and one of PV S/D <= 0.67, LARS <= 18,
\* LAVI > 34, IVRT <= 70 holds for an input that is present.
C15_RedOnlyWhenConfirmed ==
    (SinusDone /\ result.gradeLabel \in
                     {"Grade 2", "Grade 3", "Increased LAP (grade unknown)"})
        => /\ (reducedE(x) \/ highEe(x) \/ highTR(x))
           /\ \/ (x.pvSD # null /\ Val(x.pvSD) <= Dec(0, 670))
              \/ (x.lars # null /\ Val(x.lars) <= Dec(18, 0))
              \/ (x.lavi # null /\ Val(x.lavi) > Dec(34, 0))
              \/ (x.ivrt # null /\ Val(x.ivrt) <= Dec(70, 0))

\* "Grade 2" confirmed by LARS exactly 18 alone, IVRT absent and the other
\* confirmatory inputs present but not confirming
C15_Witness ==
    /\ SinusDone
    /\ Graded("Grade 2", "red")
    /\ x.lars = Some(Dec(18, 0))
    /\ x.ivrt = null
    /\ x.pvSD = Some(Dec(0, 680)) /\ x.lavi = Some(Dec(34, 0))

\* the positions of a trace that hold one of the strings
Positions(trace, strings) == {i \in DOMAIN trace : trace[i] \in strings}

\* every "Secondary criteria positive: p/a" line
C16_SecondaryLines ==
    {"Secondary criteria positive: " \o ToString(p) \o "/" \o ToString(a) :
        p \in 0..3, a \in 0..3}

\* C16: the rule trace records the stages in evaluation order.  Its first
\* entry is the tally line with the exact count of true markers ("Top
\* markers abnormal: n/3" in sinus, "AF criteria positive: n/4" in AF).  In
\* sinus mode the "LAP elevated" / "LAP not elevated" entry appears exactly
\* when the chain passes the confirmatory-availability check with a
\* confirmatory input present, once, after the tally line, and says whether
\* LAP is elevated.  In AF mode the "Secondary criteria positive: p/a" entry
\* appears exactly when the count is 2, with the positives and the available
\* inputs counted.
C16_TraceInOrder ==
    Done =>
        LET trace == result.ruleTrace
        IN  IF x.isAF
            THEN LET at == Positions(trace, C16_SecondaryLines)
                 IN  /\ trace[1] = "AF criteria positive: "
                                   \o ToString(C3_PrimaryCount(x)) \o "/4"
                     /\ (at # {}) <=> (C3_PrimaryCount(x) = 2)
                     /\ \A i \in at :
                            /\ i = 2
                            /\ trace[i] =
                                 "Secondary criteria positive: "
                                 \o ToString(C4_Positive(x)) \o "/"
                                 \o ToString(Cardinality(
                                        {f \in {"lars", "pvSD", "bmi"} : x[f] # null}))
            ELSE LET n  == Cardinality({m \in {"reducedE", "highEe", "highTR"} :
                               CASE m = "reducedE" -> reducedE(x)
                                 [] m = "highEe"   -> highEe(x)
                                 [] m = "highTR"   -> highTR(x)})
                     at == Positions(trace, {"LAP elevated", "LAP not elevated"})
                 IN  /\ trace[1] = "Top markers abnormal: " \o ToString(n) \o "/3"
                     /\ (at # {}) <=> (/\ n > 0
                                       /\ result.gradeLabel # "Grade 1"
                                       /\ (x.pvSD # null \/ x.lars # null
                                           \/ x.lavi # null \/ x.ivrt # null))
                     /\ Cardinality(at) <= 1
                     /\ \A i \in at :
                            /\ i > 1
                            /\ i = Len(trace)
                            /\ (trace[i] = "LAP elevated") <=> C10_Confirmed(x)

\* an AF bundle with a count of 2 and no secondary input: the trace is the
\* tally line followed by "Secondary criteria positive: 0/0"
C16_Witness ==
    /\ AFDone
    /\ C3_PrimaryCount(x) = 2
    /\ x.lars = null /\ x.pvSD = null /\ x.bmi = null
    /\ result.ruleTrace = <<"AF criteria positive: 2/4",
                            "Secondary criteria positive: 0/0">>

\* the tone the claim gives each grade label
C17_ToneOf(label) ==
    CASE label \in {"Normal DF", "Normal LAP"} -> "green"
      [] label = "Grade 1" -> "blue"
      [] label = "Indeterminate" -> "amber"
      [] label \in {"Grade 2", "Grade 3", "Increased LAP (grade unknown)",
                    "Elevated LAP"} -> "red"
      [] OTHER -> "none"

\* C17: the tone is a function of the grade label alone: "Normal DF" and
\* "Normal LAP" are green, "Grade 1" blue, "Indeterminate" amber, "Grade 2",
\* "Grade 3", "Increased LAP (grade unknown)" and "Elevated LAP" red; the
\* engine returns the tone gray for no bundle.
C17_ToneFollowsLabel ==
    Done =>
        /\ result.badgeTone = C17_ToneOf(result.gradeLabel)
        /\ result.badgeTone # "gray"

\* a sinus result "Increased LAP (grade unknown)" with tone red
C17_Witness ==
    /\ SinusDone
    /\ x.A = null
    /\ Graded("Increased LAP (grade unknown)", "red")

\* every measurement of the bundle is absent
AllAbsent(b) == \A f \in DOMAIN b \ {"isAF"} : b[f] = null

\* the grade the present inputs determine, stage by stage, given the E/A
\* the result exposes; the missing list is not consulted
C18_Grade(b, EA) ==
    IF b.isAF
    THEN IF C3_PrimaryCount(b) <= 1 THEN "Normal LAP"
         ELSE IF C3_PrimaryCount(b) >= 3 THEN "Elevated LAP"
         ELSE IF b.lars = null /\ b.pvSD = null /\ b.bmi = null THEN "Indeterminate"
         ELSE IF C4_Positive(b) >= 2 THEN "Elevated LAP"
         ELSE IF C4_Positive(b) = 0 THEN "Normal LAP"
         ELSE "Indeterminate"
    ELSE IF ~reducedE(b) /\ ~highEe(b) /\ ~highTR(b) THEN "Normal DF"
         ELSE IF /\ reducedE(b) /\ ~highEe(b) /\ ~highTR(b)
                 /\ EA # null /\ Val(EA) <= Dec(0, 800) THEN "Grade 1"
         ELSE IF ~C10_Confirmed(b) THEN "Indeterminate"
         ELSE IF EA = null THEN "Increased LAP (grade unknown)"
         ELSE IF Val(EA) >= Dec(2, 0) THEN "Grade 3"
         ELSE "Grade 2"

\* C18: absent data is graded as normal, not as indeterminate.  A sinus
\* bundle with every measurement absent yields "Normal DF" (green) with
\* exactly the three advisories for mitral E, mitral A and septal/lateral
\* e'; an AF bundle with every measurement absent yields "Normal LAP"
\* (green) with exactly the four advisories for mitral E, septal e',
\* TR Vmax/PASP and DT; and a non-empty missing list never changes the grade
\* that the present inputs determine.
C18_AbsentGradedNormal ==
    Done =>
        /\ (AllAbsent(x) /\ ~x.isAF) =>
               /\ Graded("Normal DF", "green")
               /\ result.missing = <<"Mitral E (cm/s)",
                                     "Mitral A (cm/s) (needed for E/A)",
                                     "Septal and/or lateral e' (cm/s)">>
        /\ (AllAbsent(x) /\ x.isAF) =>
               /\ Graded("Normal LAP", "green")
               /\ result.missing = <<"Mitral E (cm/s)",
                                     "Septal e' (cm/s) (for septal E/e')",
                                     "TR Vmax (m/s) or PASP (mmHg)",
                                     "DT (ms)">>
        /\ result.missing # <<>> =>
               result.gradeLabel = C18_Grade(x, result.derived.EA)

\* the sinus bundle with every measurement absent, graded "Normal DF" with
\* three advisories
C18_Witness ==
    /\ SinusDone
    /\ AllAbsent(x)
    /\ Graded("Normal DF", "green")
    /\ Len(result.missing) = 3

\* lo <= n / d < hi for d > 0, the bounds in thousandths
C19_ExactWithin(n, d, lo, hi) == d > 0 /\ lo * d <= 1000 * n /\ 1000 * n < hi * d

\* C19: sinus mode grades on the rounded ratios the Result exposes, so the
\* grade and the displayed values never disagree: "Grade 1" implies derived
\* E/A <= 0.8, "Grade 3" implies derived E/A >= 2, "Grade 2" implies derived
\* E/A < 2, and the high-E/e' marker is true exactly when derived
\* E/average-e' >= 14 (the tally line counts it so).  Hence a bundle whose
\* exact E/A lies in [1.995, 2) is graded "Grade 3" when E/A decides the
\* grade, and one whose exact E/average-e' lies in [13.995, 14) counts as
\* high E/e'.
C19_GradesOnRoundedRatios ==
    SinusDone =>
        LET EA    == result.derived.EA
            eAvg  == result.derived.eAvg
            EeAvg == result.derived.EeAvg
            high  == EeAvg # null /\ Val(EeAvg) >= Dec(14, 0)
        IN  /\ result.gradeLabel = "Grade 1" => (EA # null /\ Val(EA) <= Dec(0, 800))
            /\ result.gradeLabel = "Grade 3" => (EA # null /\ Val(EA) >= Dec(2, 0))
            /\ result.gradeLabel = "Grade 2" => (EA # null /\ Val(EA) < Dec(2, 0))
            /\ highEe(x) <=> high
            /\ result.ruleTrace[1] =
                   "Top markers abnormal: "
                   \o ToString(CountTrue(<<reducedE(x), high, highTR(x)>>)) \o "/3"
            /\ (/\ x.E # null /\ x.A # null
                /\ C19_ExactWithin(Val(x.E), Val(x.A), Dec(1, 995), Dec(2, 0))
                /\ result.gradeLabel \in {"Grade 2", "Grade 3"})
                   => result.gradeLabel = "Grade 3"
            /\ (/\ x.E # null /\ eAvg # null
                /\ C19_ExactWithin(Val(x.E), Val(eAvg), Dec(13, 995), Dec(14, 0)))
                   => (highEe(x) /\ result.gradeLabel # "Normal DF")

\* E = 79.9 and A = 40: the exact E/A is 1.9975, the derived E/A is 2.00 and
\* the grade is "Grade 3"
C19_Witness ==
    /\ SinusDone
    /\ x.E = Some(Dec(79, 900)) /\ x.A = Some(Dec(40, 0))
    /\ result.derived.EA = Some(Dec(2, 0))
    /\ Graded("Grade 3", "red")

\* E = 80 and septal e' 5.715 alone: the exact E/e' is 13.998, the derived
\* E/average-e' is 14.00 and the marker counts
C19_WitnessHighEe ==
    /\ SinusDone
    /\ x.E = Some(Dec(80, 0)) /\ x.eSeptal = Some(Dec(5, 715)) /\ x.eLateral = null
    /\ result.derived.EeAvg = Some(Dec(14, 0))
    /\ highEe(x)

\* pulmonary-vein S and D are both valid numbers and D is not zero
C20_RatioEntered ==
    /\ num(form.pvS) # null
    /\ num(form.pvD) # null
    /\ num(form.pvD) # Some(0)

\* the page labels the ratio it shows "Abnormal"
C20_LabelledAbnormal ==
    pvSD # null /\ (IF form.isAF THEN Val(pvSD) < Dec(1, 0)
                                 ELSE Val(pvSD) <= Dec(0, 670))

\* C20 as stated: in the page with separate pulmonary-vein S and D fields,
\* whenever both are valid numbers and D is not zero, the S/D ratio the page
\* computes and labels is the PV S/D the engine receives in its bundle, so
\* it takes part in the sinus confirmatory stage (available, and confirming
\* when <= 0.67) and in the AF tie-break (available, positive when < 1).
C20_PageRatioReachesEngine ==
    C20_RatioEntered =>
        /\ pvSD # null
        /\ x.pvSD = pvSD
        /\ (~form.isAF /\ highTR(x)) =>
               /\ result.gradeLabel # "Indeterminate" <=> C20_LabelledAbnormal
        /\ (form.isAF /\ count(x) = 2) =>
               result.ruleTrace[2] =
                   "Secondary criteria positive: "
                   \o (IF C20_LabelledAbnormal THEN "1" ELSE "0") \o "/1"

====
